---- MODULE Spec2Model ----
(***************************************************************************)
(* Model of scenes-tutorial.ipynb: key-frame extraction                    *)
(* (extract_key_frames), the parallel annotation stage (process_frame run  *)
(* by ThreadPoolExecutor.map), the corpus (df_frames) and the search       *)
(* (search_frames).                                                        *)
(*                                                                         *)
(* The stages of the notebook are checked under their own specifications,  *)
(* which share the variables below:                                        *)
(*   SpecExtract   one call of extract_key_frames, statement by statement  *)
(*   SpecAnnotate  the annotation cell for short frame lists, with the     *)
(*                 order of completion recorded                            *)
(*   SpecPool      the annotation cell for frame lists longer than the     *)
(*                 worker pool                                             *)
(*   SpecSearch    the DataFrame construction and one call of              *)
(*                 search_frames                                           *)
(***************************************************************************)
EXTENDS Integers, Sequences, FiniteSets

VARIABLES
    \* ---- extract_key_frames ----
    ex_pc,            \* position in extract_key_frames
    video_manager,    \* "none" | "open" | "released"
    cap,              \* "none" | "unopened" | "open" | "released"
    scene_list,       \* start frame number of every detected scene
    scene_i,          \* the loop's i (0-based index of the next scene)
    reads,            \* ret of every cap.read() so far, in scene order
    ex_frames,        \* the function's local frame_list (scene indexes i of frame_<i>.jpg)
    ex_return,        \* the value returned to the caller
    ex_error,         \* the call whose exception left the function, or "none"
    \* ---- annotation cell ----
    frame_list,       \* the global frame_list handed to executor.map
    service_error,    \* per position of frame_list: the external call that fails, or "none"
    caption_reply,    \* per position of frame_list: the text the caption service answers
    fut,              \* per position: the state of the future of process_frame
    calls,            \* per position: how often a worker has called process_frame
    fs_pos,           \* how many futures list(results) has consumed
    collected,        \* the list that list(results) is building
    frame_data_list,  \* the global frame_data_list
    main_pc,          \* position of the notebook's main thread
    completion_order, \* frames in the order their process_frame call ended
    \* ---- corpus and search ----
    df_frames,        \* the DataFrame: [columns, rows]
    results,          \* the value search_frames returned
    query             \* the arguments of the last search_frames call

ex_vars == <<ex_pc, video_manager, cap, scene_list, scene_i, reads, ex_frames,
             ex_return, ex_error>>
pool_vars == <<frame_list, service_error, caption_reply, fut, calls, fs_pos, collected,
               frame_data_list, main_pc, completion_order>>
search_vars == <<df_frames, results, query>>
vars == <<ex_vars, pool_vars, search_vars>>

(***************************************************************************)
(* Bounds of the model.                                                    *)
(***************************************************************************)
MaxStartFrame == 3   \* scenes start at frame numbers 0..MaxStartFrame
MaxFrames == 3       \* longest frame list of SpecAnnotate and SpecSearch
PoolExtra == 1       \* SpecPool: frames beyond max_workers in the frame list
MaxTopN == 3         \* largest top_n passed to search_frames

\* ThreadPoolExecutor(max_workers=10)
max_workers == 10

Min(a, b) == IF a <= b THEN a ELSE b

RECURSIVE SortedSeq(_)
\* The elements of a finite set of integers in increasing order.
SortedSeq(S) ==
    IF S = {} THEN <<>>
    ELSE LET m == CHOOSE x \in S : \A y \in S : x <= y
         IN  <<m>> \o SortedSeq(S \ {m})

\* What scene_manager.get_scene_list() can return: scenes ordered by start
\* frame, non-overlapping (distinct start frames); possibly none.
SceneLists == {SortedSeq(S) : S \in SUBSET (0 .. MaxStartFrame)}

(***************************************************************************)
(* extract_key_frames(video_path, output_dir)                              *)
(***************************************************************************)
ExtractIdle ==
    /\ ex_pc = "idle"
    /\ video_manager = "none"
    /\ cap = "none"
    /\ scene_list = <<>>
    /\ scene_i = 0
    /\ reads = <<>>
    /\ ex_frames = <<>>
    /\ ex_return = <<>>
    /\ ex_error = "none"

ExtractEntry ==
    /\ ex_pc = "VideoManager"
    /\ video_manager = "none"
    /\ cap = "none"
    /\ scene_list = <<>>
    /\ scene_i = 0
    /\ reads = <<>>
    /\ ex_frames = <<>>
    /\ ex_return = <<>>
    /\ ex_error = "none"

\* video_manager = VideoManager([video_path]); the SceneManager and its
\* detector are built from constants.  The constructor opens the file and
\* raises when it cannot; the call stands outside the try block.
ConstructVideoManager ==
    /\ ex_pc = "VideoManager"
    /\ \E opened \in BOOLEAN :
          IF opened
          THEN /\ video_manager' = "open"
               /\ ex_pc' = "detect"
               /\ UNCHANGED ex_error
          ELSE /\ ex_error' = "VideoManager"
               /\ ex_pc' = "raised"
               /\ UNCHANGED video_manager
    /\ UNCHANGED <<cap, scene_list, scene_i, reads, ex_frames, ex_return>>
    /\ UNCHANGED <<pool_vars, search_vars>>

\* try: video_manager.start(); scene_manager.detect_scenes(...)
\* except Exception: print; return []
\* then scene_list = scene_manager.get_scene_list(); if not scene_list: return []
DetectScenes ==
    /\ ex_pc = "detect"
    /\ \E outcome \in {"start_raises", "detect_raises", "ok"} :
       \E scenes \in SceneLists :
          IF outcome # "ok"
          THEN /\ ex_return' = <<>>
               /\ ex_pc' = "returned"
               /\ UNCHANGED scene_list
          ELSE /\ scene_list' = scenes
               /\ IF scenes = <<>>
                  THEN ex_return' = <<>> /\ ex_pc' = "returned"
                  ELSE ex_pc' = "VideoCapture" /\ UNCHANGED ex_return
    /\ UNCHANGED <<video_manager, cap, scene_i, reads, ex_frames, ex_error>>
    /\ UNCHANGED <<pool_vars, search_vars>>

\* os.makedirs(output_dir, exist_ok=True); cap = cv2.VideoCapture(video_path)
\* if not cap.isOpened(): print; return []
\* frame_list = []
OpenCapture ==
    /\ ex_pc = "VideoCapture"
    /\ \E made \in BOOLEAN, opened \in BOOLEAN :
          IF ~made
          THEN /\ ex_error' = "makedirs"
               /\ ex_pc' = "raised"
               /\ UNCHANGED <<cap, ex_return>>
          ELSE IF ~opened
          THEN /\ cap' = "unopened"
               /\ ex_return' = <<>>
               /\ ex_pc' = "returned"
               /\ UNCHANGED ex_error
          ELSE /\ cap' = "open"
               /\ ex_pc' = "loop"
               /\ UNCHANGED <<ex_return, ex_error>>
    /\ UNCHANGED <<video_manager, scene_list, scene_i, reads, ex_frames>>
    /\ UNCHANGED <<pool_vars, search_vars>>

\* An early end of the loop at the first failed read.
ReadFrameAbort ==
    /\ ex_pc = "loop"
    /\ scene_i < Len(scene_list)
    /\ \E ret \in BOOLEAN :
          /\ reads' = Append(reads, ret)
          /\ IF ret
             THEN /\ ex_frames' = Append(ex_frames, scene_i)
                  /\ scene_i' = scene_i + 1
             ELSE /\ UNCHANGED ex_frames
                  /\ scene_i' = Len(scene_list)
    /\ UNCHANGED <<ex_pc, video_manager, cap, scene_list, ex_return, ex_error>>
    /\ UNCHANGED <<pool_vars, search_vars>>

\* One iteration of `for i, scene in enumerate(scene_list)`: seek to the
\* scene's start frame, read; on success write frame_<i>.jpg and append its
\* name, otherwise print and go on.
ReadFrame ==
    /\ ex_pc = "loop"
    /\ scene_i < Len(scene_list)
    /\ \E ret \in BOOLEAN :
          /\ reads' = Append(reads, ret)
          /\ ex_frames' = IF ret THEN Append(ex_frames, scene_i) ELSE ex_frames
    /\ scene_i' = scene_i + 1
    /\ UNCHANGED <<ex_pc, video_manager, cap, scene_list, ex_return, ex_error>>
    /\ UNCHANGED <<pool_vars, search_vars>>

\* After the loop: cap.release(); video_manager.release(); return frame_list
ReleaseAndReturn ==
    /\ ex_pc = "loop"
    /\ scene_i = Len(scene_list)
    /\ cap' = "released"
    /\ video_manager' = "released"
    /\ ex_return' = ex_frames
    /\ ex_pc' = "returned"
    /\ UNCHANGED <<scene_list, scene_i, reads, ex_frames, ex_error>>
    /\ UNCHANGED <<pool_vars, search_vars>>

(***************************************************************************)
(* The external services, as the notebook uses them.                       *)
(***************************************************************************)
\* Caption and prompt texts.
Texts == {"car chase", "night street", "two men talking"}

\* get_embedding(value): the embedding service is a function of the text.
\* Vectors have two components; every vector of the table has norm 5.
get_embedding(value) ==
    CASE value = "car chase"       -> <<3, 4>>
      [] value = "night street"    -> <<4, 3>>
      [] value = "two men talking" -> <<-4, 3>>

\* upload_image_to_s3(image_path, s3_bucket): the URL is built from the
\* file's name.
upload_image_to_s3(image_path) == <<"frames", image_path>>

Steps == {"upload", "caption", "embedding"}

\* process_frame(frame_filename): upload, caption, embed, in this order; an
\* exception of any call leaves the function.  `err` is the call that fails
\* for this frame ("none": all succeed), `reply` the caption service's answer.
process_frame(frame_filename, err, reply) ==
    IF err = "upload" THEN [raised |-> "upload_image_to_s3"]
    ELSE IF err = "caption" THEN [raised |-> "generate_caption"]
    ELSE IF err = "embedding" THEN [raised |-> "get_embedding"]
    ELSE [frame_filename |-> frame_filename,
          image_url |-> upload_image_to_s3(frame_filename),
          caption |-> reply,
          embedding |-> get_embedding(reply)]

IsException(r) == "raised" \in DOMAIN r

(***************************************************************************)
(* The annotation cell:                                                    *)
(*   frame_data_list = []                                                  *)
(*   with ThreadPoolExecutor(max_workers=10) as executor:                  *)
(*       results = executor.map(process_frame, frame_list)                 *)
(*       frame_data_list = list(results)                                   *)
(*   df_frames = pd.DataFrame(frame_data_list)                             *)
(***************************************************************************)
Positions == 1 .. Len(frame_list)

\* What the future at position p holds once it has finished.
Outcome(p) == process_frame(frame_list[p], service_error[p], caption_reply[p])

Running == {p \in DOMAIN fut : fut[p] = "RUNNING"}

\* A pool that starts a thread for every work item.
IdleWorkerUnbounded == TRUE

\* The pool runs at most max_workers threads, each on one work item at a time.
IdleWorker == Cardinality(Running) < max_workers

\* executor.map submits every frame before it returns its iterator.
ExecutorMap ==
    /\ main_pc = "map"
    /\ fut' = [p \in Positions |-> "PENDING"]
    /\ calls' = [p \in Positions |-> 0]
    /\ main_pc' = "list"
    /\ UNCHANGED <<frame_list, service_error, caption_reply, fs_pos, collected,
                   frame_data_list, completion_order>>
    /\ UNCHANGED <<ex_vars, search_vars>>

\* A worker thread takes the next work item of the queue (a cancelled item
\* is dropped without being run), marks its future running and calls
\* process_frame.
WorkerStart(p) ==
    /\ p \in DOMAIN fut
    /\ fut[p] = "PENDING"
    /\ \A q \in 1 .. (p - 1) : fut[q] # "PENDING"
    /\ IdleWorker
    /\ fut' = [fut EXCEPT ![p] = "RUNNING"]
    /\ calls' = [calls EXCEPT ![p] = @ + 1]
    /\ UNCHANGED <<frame_list, service_error, caption_reply, fs_pos, collected,
                   frame_data_list, main_pc, completion_order>>
    /\ UNCHANGED <<ex_vars, search_vars>>

\* The worker's call of process_frame ends: its value or its exception is
\* stored in the future.
RunProcessFrame(p) ==
    /\ p \in DOMAIN fut
    /\ fut[p] = "RUNNING"
    /\ fut' = [fut EXCEPT ![p] = "FINISHED"]
    /\ UNCHANGED <<frame_list, service_error, caption_reply, calls, fs_pos, collected,
                   frame_data_list, main_pc>>
    /\ UNCHANGED <<ex_vars, search_vars>>

\* RunProcessFrame with the order of completion recorded.
WorkerFinish(p) ==
    /\ RunProcessFrame(p)
    /\ completion_order' = Append(completion_order, frame_list[p])

\* RunProcessFrame with no record of the order.
WorkerFinishPool(p) ==
    /\ RunProcessFrame(p)
    /\ UNCHANGED completion_order

\* An iterator that hands out results as they complete
\* (the order concurrent.futures.as_completed would give).
NextPositionAsCompleted(pos, order, frames) ==
    IF Len(order) > pos
    THEN CHOOSE p \in 1 .. Len(frames) : frames[p] = order[pos + 1]
    ELSE CHOOSE p \in 1 .. Len(frames) :
            \A k \in 1 .. Len(order) : order[k] # frames[p]

\* executor.map's iterator yields the futures' results in the order of
\* submission.
NextPosition(pos, order, frames) == pos + 1

\* list(results) takes the next result: fs.pop().result() blocks until that
\* future has finished; its value is appended to the list, its exception is
\* raised, and the iterator's finally clause then cancels the futures it has
\* not consumed (only a pending future can be cancelled).
NextResult ==
    /\ main_pc = "list"
    /\ fs_pos < Len(frame_list)
    /\ LET p == NextPosition(fs_pos, completion_order, frame_list)
       IN  /\ fut[p] = "FINISHED"
           /\ IF IsException(Outcome(p))
              THEN /\ fut' = [q \in DOMAIN fut |->
                                IF q > p /\ fut[q] = "PENDING"
                                THEN "CANCELLED" ELSE fut[q]]
                   /\ main_pc' = "shutdown"
                   /\ UNCHANGED <<fs_pos, collected>>
              ELSE /\ collected' = Append(collected, Outcome(p))
                   /\ fs_pos' = fs_pos + 1
                   /\ UNCHANGED <<fut, main_pc>>
    /\ UNCHANGED <<frame_list, service_error, caption_reply, calls, frame_data_list,
                   completion_order>>
    /\ UNCHANGED <<ex_vars, search_vars>>

\* list(results) is complete: frame_data_list is assigned and the with block
\* is left (every future has finished, so shutdown has nothing to wait for).
AssignFrameDataList ==
    /\ main_pc = "list"
    /\ fs_pos = Len(frame_list)
    /\ frame_data_list' = collected
    /\ main_pc' = "DataFrame"
    /\ UNCHANGED <<frame_list, service_error, caption_reply, calls, fut, fs_pos,
                   collected, completion_order>>
    /\ UNCHANGED <<ex_vars, search_vars>>

\* The exception leaves the with block: executor.__exit__ calls
\* shutdown(wait=True), which joins the worker threads, and the exception
\* then leaves the cell.  frame_data_list keeps its value [] and df_frames
\* is not created.
ShutdownAndRaise ==
    /\ main_pc = "shutdown"
    /\ \A p \in DOMAIN fut : fut[p] \notin {"PENDING", "RUNNING"}
    /\ main_pc' = "raised"
    /\ UNCHANGED <<frame_list, service_error, caption_reply, calls, fut, fs_pos,
                   collected, frame_data_list, completion_order>>
    /\ UNCHANGED <<ex_vars, search_vars>>

(***************************************************************************)
(* The corpus.                                                             *)
(***************************************************************************)
RecordColumns == {"frame_filename", "image_url", "caption", "embedding"}

\* No DataFrame exists yet.
NoDataFrame == [columns |-> {"(undefined)"}, rows |-> <<>>]

\* pd.DataFrame(list of dicts): one row per dict under the index labels
\* 0..n-1, the columns being the dicts' keys; an empty list gives a frame
\* with no rows and no columns.
DataFrame(data) ==
    IF data = <<>>
    THEN [columns |-> {}, rows |-> <<>>]
    ELSE [columns |-> RecordColumns,
          rows |-> [k \in 1 .. Len(data) |-> [index |-> k - 1, rec |-> data[k]]]]

\* df_frames = pd.DataFrame(frame_data_list)
CreateDataFrame ==
    /\ main_pc = "DataFrame"
    /\ df_frames' = DataFrame(frame_data_list)
    /\ main_pc' = "search"
    /\ UNCHANGED <<frame_list, service_error, caption_reply, calls, fut, fs_pos,
                   collected, frame_data_list, completion_order>>
    /\ UNCHANGED <<ex_vars, results, query>>

(***************************************************************************)
(* search_frames(prompt, df_frames, top_n=5)                               *)
(***************************************************************************)
Dot(x, y) == x[1] * y[1] + x[2] * y[2]

\* The Euclidean norm of a vector whose norm is a whole number.
Norm(x) == CHOOSE n \in 0 .. Dot(x, x) : n * n = Dot(x, x)

\* sklearn's cosine_similarity of two vectors, in hundredths; a zero vector
\* has similarity 0 with every vector.
cosine_similarity(x, y) ==
    IF Norm(x) * Norm(y) = 0 THEN 0
    ELSE (100 * Dot(x, y)) \div (Norm(x) * Norm(y))

Perms(n) == {f \in [1 .. n -> 1 .. n] : \A a, b \in 1 .. n : a # b => f[a] # f[b]}

\* df.sort_values('similarity', ascending=False): the default kind is
\* 'quicksort', which is not stable, so rows of equal similarity come out in
\* any order.
sort_values(rows) ==
    {[k \in 1 .. Len(rows) |-> rows[f[k]]] :
        f \in {g \in Perms(Len(rows)) :
                 \A k \in 1 .. (Len(rows) - 1) :
                    rows[g[k]].similarity >= rows[g[k + 1]].similarity}}

\* df.head(n) for a positive n: the first n rows, or all of them.
head(rows, n) == SubSeq(rows, 1, Min(n, Len(rows)))

\* The frame with the column 'similarity' assigned: every row's embedding
\* against the prompt's.
WithSimilarity(df, prompt_embedding) ==
    [columns |-> df.columns \cup {"similarity"},
     rows |-> [k \in 1 .. Len(df.rows) |->
                 [index |-> df.rows[k].index,
                  rec |-> df.rows[k].rec,
                  similarity |-> cosine_similarity(df.rows[k].rec.embedding,
                                                   prompt_embedding)]]]

\* results = search_frames(prompt, df_frames, top_n).  df_frames['embedding']
\* raises KeyError on a frame without that column; the assignment of
\* df_frames['similarity'] is made on the caller's frame.
SearchFrames ==
    /\ main_pc = "search"
    /\ \E prompt \in Texts, top_n \in 1 .. MaxTopN :
          /\ query' = [prompt |-> prompt, top_n |-> top_n]
          /\ IF "embedding" \notin df_frames.columns
             THEN /\ main_pc' = "KeyError"
                  /\ UNCHANGED <<df_frames, results>>
             ELSE /\ df_frames' = WithSimilarity(df_frames, get_embedding(prompt))
                  /\ \E sorted \in sort_values(df_frames'.rows) :
                        results' = [columns |-> df_frames'.columns,
                                    rows |-> head(sorted, top_n)]
                  /\ main_pc' = "searched"
    /\ UNCHANGED <<frame_list, service_error, caption_reply, calls, fut, fs_pos,
                   collected, frame_data_list, completion_order>>
    /\ UNCHANGED ex_vars

(***************************************************************************)
(* Initial states and specifications.                                      *)
(***************************************************************************)
SearchIdle ==
    /\ df_frames = NoDataFrame
    /\ results = NoDataFrame
    /\ query = [prompt |-> "", top_n |-> 0]

\* The frame list extract_key_frames returns when every read succeeds:
\* frame_0 .. frame_<n-1>.
FrameList(n) == [p \in 1 .. n |-> p - 1]

PoolIdle ==
    /\ frame_list = <<>>
    /\ service_error = <<>>
    /\ caption_reply = <<>>
    /\ fut = <<>>
    /\ calls = <<>>
    /\ fs_pos = 0
    /\ collected = <<>>
    /\ frame_data_list = <<>>
    /\ main_pc = "idle"
    /\ completion_order = <<>>

\* The annotation cell is entered: frame_data_list = [].
PoolEntry(n) ==
    /\ frame_list = FrameList(n)
    /\ caption_reply = [p \in 1 .. n |-> "car chase"]
    /\ fut = <<>>
    /\ calls = <<>>
    /\ fs_pos = 0
    /\ collected = <<>>
    /\ frame_data_list = <<>>
    /\ main_pc = "map"
    /\ completion_order = <<>>

InitExtract == ExtractEntry /\ PoolIdle /\ SearchIdle

NextExtract ==
    \/ ConstructVideoManager
    \/ DetectScenes
    \/ OpenCapture
    \/ ReadFrame
    \/ ReleaseAndReturn

SpecExtract == InitExtract /\ [][NextExtract]_vars

\* Frame lists of up to MaxFrames frames; for every frame any one of its
\* three external calls may fail.
InitAnnotate ==
    /\ ExtractIdle
    /\ SearchIdle
    /\ \E n \in 0 .. MaxFrames :
          /\ PoolEntry(n)
          /\ service_error \in [1 .. n -> {"none"} \cup Steps]

NextAnnotate ==
    \/ ExecutorMap
    \/ \E p \in Positions : WorkerStart(p)
    \/ \E p \in Positions : WorkerFinish(p)
    \/ NextResult
    \/ AssignFrameDataList
    \/ ShutdownAndRaise
    \/ CreateDataFrame

SpecAnnotate == InitAnnotate /\ [][NextAnnotate]_vars

\* Frame lists longer than the pool; at most one frame has a failing call.
InitPool ==
    /\ ExtractIdle
    /\ SearchIdle
    /\ \E n \in (max_workers + 1) .. (max_workers + PoolExtra) :
          /\ PoolEntry(n)
          /\ service_error \in
                {[p \in 1 .. n |-> "none"]} \cup
                {[p \in 1 .. n |-> IF p = q THEN e ELSE "none"] :
                    q \in 1 .. n, e \in Steps}

NextPool ==
    \/ ExecutorMap
    \/ \E p \in Positions : WorkerStart(p)
    \/ \E p \in Positions : WorkerFinishPool(p)
    \/ NextResult
    \/ AssignFrameDataList
    \/ ShutdownAndRaise
    \/ CreateDataFrame

SpecPool == InitPool /\ [][NextPool]_vars

\* The state after the annotation cell has run without an error, for every
\* choice of the captions: frame_data_list holds one record per frame.
InitSearch ==
    /\ ExtractIdle
    /\ SearchIdle
    /\ \E n \in 0 .. MaxFrames :
          /\ frame_list = FrameList(n)
          /\ service_error = [p \in 1 .. n |-> "none"]
          /\ caption_reply \in [1 .. n -> Texts]
          /\ fut = [p \in 1 .. n |-> "FINISHED"]
          /\ calls = [p \in 1 .. n |-> 1]
          /\ fs_pos = n
          /\ collected = [p \in 1 .. n |->
                            process_frame(frame_list[p], "none", caption_reply[p])]
          /\ frame_data_list = collected
          /\ main_pc = "DataFrame"
          /\ completion_order = <<>>

NextSearch ==
    \/ CreateDataFrame
    \/ SearchFrames

SpecSearch == InitSearch /\ [][NextSearch]_vars

(***************************************************************************)
(* Properties.                                                             *)
(***************************************************************************)
Failing == {p \in Positions : service_error[p] # "none"}

\* The frame names of a frame's rows, in row order.
FrameNames(df) == [k \in 1 .. Len(df.rows) |-> df.rows[k].rec.frame_filename]

\* The records of the frames whose three calls succeed, in frame_list order.
RECURSIVE SucceededRecords(_)
SucceededRecords(n) ==
    IF n = 0 THEN <<>>
    ELSE IF service_error[n] = "none"
         THEN Append(SucceededRecords(n - 1), Outcome(n))
         ELSE SucceededRecords(n - 1)

\* C1: when exactly one frame's pipeline fails and all others succeed, the
\* annotation stage ends with a corpus holding exactly one record for each
\* frame that succeeded, and not with the failure raised out of the stage.
C1_OneFailureStillBuildsCorpus ==
    (Cardinality(Failing) = 1 /\ main_pc \in {"raised", "search"})
        => /\ main_pc = "search"
           /\ df_frames.rows = DataFrame(SucceededRecords(Len(frame_list))).rows

\* C2: for every corpus size, 0 included, and every positive top_n,
\* search_frames returns without raising and its result has exactly
\* min(top_n, corpus size) rows (none on an empty corpus).
C2_SearchLength ==
    main_pc \in {"searched", "KeyError"}
        => /\ main_pc = "searched"
           /\ Len(results.rows) = Min(query.top_n, Len(frame_data_list))
           /\ (frame_data_list = <<>> => results.rows = <<>>)

\* The rows in descending similarity with equal similarities in index order.
StableOrder(rows) ==
    CHOOSE s \in sort_values(rows) :
        \A k \in 1 .. (Len(s) - 1) :
            s[k].similarity = s[k + 1].similarity => s[k].index < s[k + 1].index

\* C3: the rows search_frames returns are in descending order of similarity,
\* rows of equal similarity in their corpus (index) order: the result is the
\* first top_n rows of the stable descending ordering of the corpus.
C3_StableDescending ==
    main_pc = "searched"
        => /\ \A k \in 1 .. (Len(results.rows) - 1) :
                 results.rows[k].similarity >= results.rows[k + 1].similarity
           /\ results.rows = head(StableOrder(df_frames.rows), query.top_n)

\* C4: a failure of the video at any step of extract_key_frames (constructing
\* the video manager, starting it, detecting scenes, opening the capture)
\* never leaves the function as an exception.
C4_VideoFailureNeverRaises ==
    ~(ex_pc = "raised" /\ ex_error \in {"VideoManager", "start", "detect_scenes",
                                        "VideoCapture"})

\* C5: whenever extract_key_frames has returned, on any path, the video
\* manager and the capture it acquired have been released.
C5_ResourcesReleased ==
    ex_pc = "returned"
        => /\ video_manager \in {"none", "released"}
           /\ cap \in {"none", "unopened", "released"}

\* C6: when extract_key_frames returns from its loop, every scene was read,
\* and the value returned is exactly frame_<i> for the scenes i whose read
\* succeeded, in scene order: never more frames than scenes, no scene index
\* twice.
C6_FramesOfReadableScenes ==
    (ex_pc = "returned" /\ cap = "released")
        => /\ Len(reads) = Len(scene_list)
           /\ ex_return = SortedSeq({i \in 0 .. (Len(scene_list) - 1) : reads[i + 1]})
           /\ Len(ex_return) <= Len(scene_list)
           /\ \A a, b \in 1 .. Len(ex_return) : a # b => ex_return[a] # ex_return[b]

\* C6's case: the function returned from the loop after a failed read that
\* was followed by a successful one.
C6_Witness ==
    /\ ex_pc = "returned"
    /\ cap = "released"
    /\ \E a, b \in 1 .. Len(reads) : a < b /\ ~reads[a] /\ reads[b]

\* C7: after search_frames the corpus is what it was built as: the same rows
\* and fields, with no similarity column.
C7_SearchLeavesCorpusUnchanged ==
    main_pc = "searched"
        => /\ df_frames = DataFrame(frame_data_list)
           /\ "similarity" \notin df_frames.columns

\* C8 as stated: the corpus lists the records in the order in which the
\* frames' annotation pipelines completed.
C8_CorpusInCompletionOrder ==
    main_pc = "search" => FrameNames(df_frames) = completion_order

\* C8 as amended: the corpus lists the records in the order of frame_list
\* (the order of submission to the pool), whatever the order of completion.
C8_CorpusInSubmissionOrder ==
    main_pc = "search" => FrameNames(df_frames) = frame_list

\* C8's case: a corpus was built from pipelines that completed in another
\* order than they were submitted in.
C8_Witness ==
    /\ main_pc = "search"
    /\ Len(df_frames.rows) >= 2
    /\ completion_order # frame_list

\* C9: when one frame's failure has ended the stage, every other frame
\* (every frame whose own calls succeed) has still run its pipeline to
\* completion.
C9_SiblingsRunToCompletion ==
    main_pc = "raised"
        => \A p \in Positions : service_error[p] = "none" => fut[p] = "FINISHED"

\* C10: at most max_workers frames are inside their pipeline at once; the
\* corpus is built only after every frame's pipeline has finished; and when
\* all calls succeed every frame of frame_list has been annotated exactly
\* once (one call of process_frame, one record in the corpus).
C10_BoundedPool ==
    /\ Cardinality(Running) <= max_workers
    /\ main_pc \in {"DataFrame", "search"}
          => \A p \in Positions : fut[p] = "FINISHED"
    /\ (main_pc = "search" /\ Failing = {})
          => /\ Len(df_frames.rows) = Len(frame_list)
             /\ \A p \in Positions : /\ calls[p] = 1
                                      /\ df_frames.rows[p].rec = Outcome(p)

\* C10's case: all max_workers workers are busy while a frame still waits
\* in the queue.
C10_Witness ==
    /\ Cardinality(Running) = max_workers
    /\ \E p \in Positions : fut[p] = "PENDING"

====
